---- MODULE Spec2Model ----
(***************************************************************************)
(* OhmGuard backend: the tenant room registry and broadcast layer of       *)
(* socketio_service.py and the radar event normalizer of                   *)
(* radar_event_models.py.                                                  *)
(*                                                                         *)
(* Spec     handlers are coroutines that may be suspended at every await;  *)
(*          the steps of different handlers interleave.                    *)
(* SpecSeq  handlers run one at a time, each to completion.                *)
(* SpecNorm normalize_radar_event applied to one request.                  *)
(* SpecRegions  the same, for every small presenceRegionMap.               *)
(* SpecSan  sanitize_for_json applied to one value, then to its result.    *)
(* SpecMsg  the broadcast functions with the content of their messages.    *)
(***************************************************************************)
EXTENDS Integers, Sequences, FiniteSets, TLC

\* ---------------------------------------------------------------- bounds
\* Number of handler coroutines that may be suspended at the same time.
MaxTasks == 2
\* Timestamps are m * 10^e milliseconds with e up to MaxExp.
MaxExp == 22
\* Length of payload.trackerTargets.
MaxTargets == 2
\* Number of entries of payload.presenceRegionMap.
MaxRegions == 3
\* Nesting depth of the values given to sanitize_for_json.
MaxDepth == 3

\* ---------------------------------------------------------------- values
Sids == {"c1", "c2"}
TenantIds == {"t1", "t2"}
\* Python's None (also what data.get('tenant_id') gives for a missing key).
None == "<None>"
\* What a client may send as data['tenant_id'].
TenantArgs == TenantIds \cup {None, ""}
\* The same for the handlers run by steps: the tenants and the empty id.
StepArgs == TenantIds \cup {""}

VARIABLES
    conn,               \* sid -> "new" | "connected" | "disconnected"
    connected_clients,  \* the dict tenant_id -> set of sids, as its items in insertion order
    rooms,              \* the transport's rooms: room name -> set of sids
    tasks,              \* the suspended handler coroutines
    ret,                \* what the handler that finished in this step returned (or raised)
    sent,               \* the messages emitted in this step
    request,            \* the RadarEventRequest given to normalize_radar_event
    response,           \* what normalize_radar_event returned or raised for it
    obj,                \* the value given to sanitize_for_json
    clean               \* the results of sanitize_for_json applied to obj once, twice, ...

vars == <<conn, connected_clients, rooms, tasks, ret, sent, request, response, obj, clean>>
registry == <<conn, connected_clients, rooms, tasks, ret, sent>>
normalizer == <<request, response>>
sanitizer == <<obj, clean>>

\* ------------------------------------------------------- python helpers
\* `if not tenant_id` / `if tenant_id`
TruthyNoneOnly(v) == v # None
Truthy(v) == v \notin {None, ""}

\* f"tenant_{tenant_id}"
RoomAll(tenant_id) == "tenant_"
Room(tenant_id) == "tenant_" \o tenant_id

RoomNames == {Room(t) : t \in TenantIds \cup {""}}

\* set.add
SetAddToggle(S, x) == IF x \in S THEN S \ {x} ELSE S \cup {x}
SetAdd(S, x) == S \cup {x}

\* set.discard
SetDiscardAll(S, x) == {}
SetDiscard(S, x) == S \ {x}

\* dict helpers over the items sequence <<key, value>>
HasKey(cc, k) == \E i \in 1..Len(cc) : cc[i][1] = k
KeyIndex(cc, k) == CHOOSE i \in 1..Len(cc) : cc[i][1] = k
\* connected_clients.get(tenant_id, set())
GetClients(cc, k) == IF HasKey(cc, k) THEN cc[KeyIndex(cc, k)][2] ELSE {}

\* sio.enter_room / sio.leave_room as seen by the room table
EnterRoom(rm, sid, room) == [rm EXCEPT ![room] = SetAdd(@, sid)]
LeaveRoom(rm, sid, room) == [rm EXCEPT ![room] = SetDiscard(@, sid)]

\* join_tenant, "Track connected clients"
TrackClient(cc, sid, tenant_id) ==
    LET c1 == IF HasKey(cc, tenant_id) THEN cc ELSE Append(cc, <<tenant_id, {}>>)
    IN  [c1 EXCEPT ![KeyIndex(c1, tenant_id)][2] = SetAdd(@, sid)]

\* leave_tenant, the registry half
UntrackClientSetdefault(cc, sid, tenant_id) ==
    LET c1 == IF HasKey(cc, tenant_id) THEN cc ELSE Append(cc, <<tenant_id, {}>>)
    IN  [c1 EXCEPT ![KeyIndex(c1, tenant_id)][2] = SetDiscard(@, sid)]
UntrackClient(cc, sid, tenant_id) ==
    IF HasKey(cc, tenant_id)
    THEN [cc EXCEPT ![KeyIndex(cc, tenant_id)][2] = SetDiscard(@, sid)]
    ELSE cc

\* get_connected_count
RECURSIVE SumLen(_, _)
SumLen(cc, i) == IF i > Len(cc) THEN 0 ELSE Cardinality(cc[i][2]) + SumLen(cc, i + 1)
get_connected_count(cc, tenant_id) ==
    IF Truthy(tenant_id)
    THEN Cardinality(GetClients(cc, tenant_id))
    ELSE SumLen(cc, 1)

\* ------------------------------------------------------- return values
NoRet == [op |-> "none", sid |-> None, arg |-> None, value |-> None, room |-> None]
JoinFailure == "success: False, error: tenant_id required"
Success == "success: True"
Returned(op, sid, arg, value, room) ==
    [op |-> op, sid |-> sid, arg |-> arg, value |-> value, room |-> room]

\* ------------------------------------------------------------ messages
\* One sio.emit(event, data, room=room) as the transport sees it: the room it
\* names (None for no room) and the sids it is delivered to.
Emit(room, to) == [room |-> room, to |-> to]

Task(kind, sid, tenant_id, pc, i, used) ==
    [kind |-> kind, sid |-> sid, tenant_id |-> tenant_id, pc |-> pc, i |-> i, used |-> used]

NoRequest == [payload |-> [presenceDetected |-> FALSE, presenceRegionMap |-> << >>,
                           trackerTargets |-> << >>, timestamp |-> [m |-> 0, e |-> 0]],
              type |-> 0, deviceId |-> ""]
NoResponse == [raised |-> "pending", event |-> << >>]
NoObj == <<"unset">>

Init ==
    /\ conn = [c \in Sids |-> "new"]
    /\ connected_clients = << >>
    /\ rooms = [r \in RoomNames |-> {}]
    /\ tasks = {}
    /\ ret = NoRet
    /\ sent = {}
    /\ request = NoRequest
    /\ response = NoResponse
    /\ obj = NoObj
    /\ clean = << >>

\* -------------------------------------------------------------- connect
Connect(sid) ==
    /\ UNCHANGED <<normalizer, sanitizer>>
    /\ conn[sid] = "new"
    /\ conn' = [conn EXCEPT ![sid] = "connected"]
    /\ ret' = Returned("connect", sid, None, "True", None)
    /\ sent' = {}
    /\ UNCHANGED <<connected_clients, rooms, tasks>>

\* ------------------------------------------------ join_tenant, by steps
\* up to `await sio.enter_room(sid, room)`
JoinStart(sid, tenant_id) ==
    /\ UNCHANGED <<normalizer, sanitizer>>
    /\ conn[sid] = "connected"
    /\ sent' = {}
    /\ IF ~Truthy(tenant_id)
       THEN /\ ret' = Returned("join_tenant", sid, tenant_id, JoinFailure, None)
            /\ UNCHANGED <<conn, connected_clients, rooms, tasks>>
       ELSE /\ Cardinality(tasks) < MaxTasks
            /\ Task("join_tenant", sid, tenant_id, "enter_room", 0, 0) \notin tasks
            /\ rooms' = EnterRoom(rooms, sid, Room(tenant_id))
            /\ tasks' = tasks \cup {Task("join_tenant", sid, tenant_id, "enter_room", 0, 0)}
            /\ ret' = NoRet
            /\ UNCHANGED <<conn, connected_clients>>

\* From the return of enter_room to the return of the handler.  Nothing but
\* `return` follows `await sio.emit('joined', ..., room=sid)`, so the
\* resumption after that await is part of this step.
JoinResume(t) ==
    /\ UNCHANGED <<normalizer, sanitizer>>
    /\ t \in tasks
    /\ t.kind = "join_tenant"
    /\ connected_clients' = TrackClient(connected_clients, t.sid, t.tenant_id)
    /\ sent' = {Emit(t.sid, {t.sid})}
    /\ tasks' = tasks \ {t}
    /\ ret' = Returned("join_tenant", t.sid, t.tenant_id, Success, Room(t.tenant_id))
    /\ UNCHANGED <<conn, rooms>>

\* ----------------------------------------------- leave_tenant, by steps
\* up to `await sio.leave_room(sid, room)`
LeaveStart(sid, tenant_id) ==
    /\ UNCHANGED <<normalizer, sanitizer>>
    /\ conn[sid] = "connected"
    /\ sent' = {}
    /\ IF ~Truthy(tenant_id)
       THEN /\ ret' = Returned("leave_tenant", sid, tenant_id, Success, None)
            /\ UNCHANGED <<conn, connected_clients, rooms, tasks>>
       ELSE /\ Cardinality(tasks) < MaxTasks
            /\ Task("leave_tenant", sid, tenant_id, "leave_room", 0, 0) \notin tasks
            /\ rooms' = LeaveRoom(rooms, sid, Room(tenant_id))
            /\ tasks' = tasks \cup {Task("leave_tenant", sid, tenant_id, "leave_room", 0, 0)}
            /\ ret' = NoRet
            /\ UNCHANGED <<conn, connected_clients>>

\* from the return of leave_room to the return of the handler
LeaveResume(t) ==
    /\ UNCHANGED <<normalizer, sanitizer>>
    /\ t \in tasks
    /\ t.kind = "leave_tenant"
    /\ connected_clients' = UntrackClient(connected_clients, t.sid, t.tenant_id)
    /\ tasks' = tasks \ {t}
    /\ ret' = Returned("leave_tenant", t.sid, t.tenant_id, Success, None)
    /\ sent' = {}
    /\ UNCHANGED <<conn, rooms>>

\* ------------------------------------------------- disconnect, by steps
\* The first entry at or after position i of connected_clients.items() that
\* holds sid; 0 when there is none.
NextHit(cc, sid, i) ==
    LET hits == {j \in i..Len(cc) : sid \in cc[j][2]}
    IN  IF hits = {} THEN 0 ELSE CHOOSE j \in hits : \A k \in hits : j <= k

\* The for loop from position i, up to its next `await sio.leave_room` or its end.
\* `old` is the suspended coroutine being resumed ({} when the handler starts).
DisconnectRun(sid, i, used, old) ==
    LET j == NextHit(connected_clients, sid, i)
    IN  IF j = 0
        THEN /\ tasks' = tasks \ old
             /\ ret' = Returned("disconnect", sid, None, None, None)
             /\ UNCHANGED <<connected_clients, rooms>>
        ELSE /\ Cardinality(tasks \ old) < MaxTasks
             /\ connected_clients' = [connected_clients EXCEPT ![j][2] = SetDiscard(@, sid)]
             /\ rooms' = LeaveRoom(rooms, sid, Room(connected_clients[j][1]))
             /\ tasks' = (tasks \ old) \cup {Task("disconnect", sid, None, "leave_room", j + 1, used)}
             /\ ret' = NoRet

DisconnectStart(sid) ==
    /\ UNCHANGED <<normalizer, sanitizer>>
    /\ conn[sid] = "connected"
    /\ conn' = [conn EXCEPT ![sid] = "disconnected"]
    /\ sent' = {}
    /\ DisconnectRun(sid, 1, Len(connected_clients), {})

\* The dict iterator raises RuntimeError when the dict changed size since the
\* iteration began.
DisconnectResume(t) ==
    /\ UNCHANGED <<normalizer, sanitizer>>
    /\ t \in tasks
    /\ t.kind = "disconnect"
    /\ sent' = {}
    /\ UNCHANGED conn
    /\ IF Len(connected_clients) # t.used
       THEN /\ tasks' = tasks \ {t}
            /\ ret' = Returned("disconnect", t.sid, None, "RuntimeError", None)
            /\ UNCHANGED <<connected_clients, rooms>>
       ELSE DisconnectRun(t.sid, t.i, t.used, {t})

\* --------------------------------------------------------- broadcasts
\* sio.emit(..., room=room): the sids in the room at the call
RoomRecipientsEveryone(rm, room) == UNION {rm[r] : r \in DOMAIN rm}
RoomRecipients(rm, room) == rm[room]

\* `room = f"tenant_{tenant_id}"` ... `await sio.emit(<event>, {...}, room=room)` of
\* broadcast_new_event, _presence_update, _sensor_status and _sensor_registered
EmitToTenant(tenant_id) ==
    /\ UNCHANGED <<normalizer, sanitizer>>
    /\ sent' = {Emit(Room(tenant_id), RoomRecipients(rooms, Room(tenant_id)))}
    /\ ret' = NoRet
    /\ UNCHANGED <<conn, connected_clients, rooms, tasks>>

\* sio.emit(event_name, clean_data): no room, every connected client
EmitToAll ==
    /\ UNCHANGED <<normalizer, sanitizer>>
    /\ sent' = {Emit(None, {c \in Sids : conn[c] = "connected"})}
    /\ ret' = NoRet
    /\ UNCHANGED <<conn, connected_clients, rooms, tasks>>

\* The delivery of the five broadcast functions; what the message holds is
\* left to SpecMsg.
Broadcasts ==
    \/ \E t \in TenantIds : EmitToTenant(t)
    \/ EmitToAll

Next ==
    \/ \E c \in Sids : Connect(c)
    \/ \E c \in Sids, v \in StepArgs : JoinStart(c, v)
    \/ \E t \in tasks : JoinResume(t)
    \/ \E c \in Sids, v \in StepArgs : LeaveStart(c, v)
    \/ \E t \in tasks : LeaveResume(t)
    \/ \E c \in Sids : DisconnectStart(c)
    \/ \E t \in tasks : DisconnectResume(t)
    \/ Broadcasts

Spec == Init /\ [][Next]_vars

\* ------------------------------------------- handlers run one at a time
JoinTenant(sid, tenant_id) ==
    /\ UNCHANGED <<normalizer, sanitizer>>
    /\ conn[sid] = "connected"
    /\ IF ~Truthy(tenant_id)
       THEN /\ ret' = Returned("join_tenant", sid, tenant_id, JoinFailure, None)
            /\ sent' = {}
            /\ UNCHANGED <<conn, connected_clients, rooms, tasks>>
       ELSE /\ rooms' = EnterRoom(rooms, sid, Room(tenant_id))
            /\ connected_clients' = TrackClient(connected_clients, sid, tenant_id)
            /\ sent' = {Emit(sid, {sid})}
            /\ ret' = Returned("join_tenant", sid, tenant_id, Success, Room(tenant_id))
            /\ UNCHANGED <<conn, tasks>>

LeaveTenant(sid, tenant_id) ==
    /\ UNCHANGED <<normalizer, sanitizer>>
    /\ conn[sid] = "connected"
    /\ ret' = Returned("leave_tenant", sid, tenant_id, Success, None)
    /\ sent' = {}
    /\ IF ~Truthy(tenant_id)
       THEN UNCHANGED <<conn, connected_clients, rooms, tasks>>
       ELSE /\ rooms' = LeaveRoom(rooms, sid, Room(tenant_id))
            /\ connected_clients' = UntrackClient(connected_clients, sid, tenant_id)
            /\ UNCHANGED <<conn, tasks>>

\* The whole for loop of disconnect from position i: <<connected_clients, rooms>> after it.
RECURSIVE DisconnectLoop(_, _, _, _)
DisconnectLoop(cc, rm, sid, i) ==
    IF i > Len(cc) THEN <<cc, rm>>
    ELSE IF sid \in cc[i][2]
         THEN DisconnectLoop([cc EXCEPT ![i][2] = SetDiscard(@, sid)],
                             LeaveRoom(rm, sid, Room(cc[i][1])), sid, i + 1)
         ELSE DisconnectLoop(cc, rm, sid, i + 1)

Disconnect(sid) ==
    /\ UNCHANGED <<normalizer, sanitizer>>
    /\ conn[sid] = "connected"
    /\ conn' = [conn EXCEPT ![sid] = "disconnected"]
    /\ connected_clients' = DisconnectLoop(connected_clients, rooms, sid, 1)[1]
    /\ rooms' = DisconnectLoop(connected_clients, rooms, sid, 1)[2]
    /\ ret' = Returned("disconnect", sid, None, None, None)
    /\ sent' = {}
    /\ UNCHANGED tasks

NextSeq ==
    \/ \E c \in Sids : Connect(c)
    \/ \E c \in Sids, v \in TenantArgs : JoinTenant(c, v)
    \/ \E c \in Sids, v \in TenantArgs : LeaveTenant(c, v)
    \/ \E c \in Sids : Disconnect(c)
    \/ Broadcasts

SpecSeq == Init /\ [][NextSeq]_vars


\* ==================================================== radar_event_models
\* ---------------------------------------------------------- python values
\* A str is the sequence of its characters; a value found in a region map is
\* an int, a str or None.
PyInt(n) == <<"int", n>>
PyStr(chars) == <<"str", chars>>
PyNone == <<"none">>

DigitChars == <<"0", "1", "2", "3", "4", "5", "6", "7", "8", "9">>
IsDigit(ch) == \E d \in 1..10 : DigitChars[d] = ch
DigitValue(ch) == (CHOOSE d \in 1..10 : DigitChars[d] = ch) - 1

RECURSIVE Strip(_)
Strip(chars) ==
    IF chars = << >> THEN chars
    ELSE IF Head(chars) = " " THEN Strip(Tail(chars))
    ELSE IF chars[Len(chars)] = " " THEN Strip(SubSeq(chars, 1, Len(chars) - 1))
    ELSE chars

\* digits with single underscores between them
RECURSIVE DigitsValue(_, _)
DigitsValue(chars, acc) ==
    IF chars = << >> THEN acc
    ELSE IF Head(chars) = "_" THEN DigitsValue(Tail(chars), acc)
    ELSE DigitsValue(Tail(chars), 10 * acc + DigitValue(Head(chars)))

WellFormedDigits(chars) ==
    /\ chars # << >>
    /\ IsDigit(chars[1])
    /\ IsDigit(chars[Len(chars)])
    /\ \A i \in 1..Len(chars) : IsDigit(chars[i]) \/ chars[i] = "_"
    /\ \A i \in 1..(Len(chars) - 1) : ~(chars[i] = "_" /\ chars[i + 1] = "_")

Raised(exc) == [raised |-> exc, value |-> 0]
Value(v) == [raised |-> "none", value |-> v]

\* int(x) of a str
IntOfStr(chars) ==
    LET t == Strip(chars)
        signed == t # << >> /\ t[1] \in {"+", "-"}
        body == IF signed THEN Tail(t) ELSE t
    IN  IF ~WellFormedDigits(body) THEN Raised("ValueError")
        ELSE IF signed /\ t[1] = "-" THEN Value(0 - DigitsValue(body, 0))
        ELSE Value(DigitsValue(body, 0))

\* int(x)
PyIntOf(v) ==
    CASE v[1] = "int" -> Value(v[2])
      [] v[1] = "str" -> IntOfStr(v[2])
      [] OTHER -> Raised("TypeError")

\* sorted(list of int)
RECURSIVE Insert(_, _)
Insert(sorted, x) ==
    IF sorted = << >> THEN <<x>>
    ELSE IF x < Head(sorted) THEN <<x>> \o sorted
    ELSE <<Head(sorted)>> \o Insert(Tail(sorted), x)
RECURSIVE Sorted(_)
Sorted(list) == IF list = << >> THEN << >> ELSE Insert(Sorted(Tail(list)), Head(list))

\* ------------------------------------------------------------ from_code
from_codePresenceDefault(code) ==
    CASE code = 1 -> "FALL"
      [] code = 2 -> "PRE_FALL"
      [] code = 3 -> "INACTIVITY"
      [] OTHER -> "PRESENCE"
from_code(code) ==
    CASE code = 1 -> "FALL"
      [] code = 2 -> "PRE_FALL"
      [] code = 3 -> "INACTIVITY"
      [] code = 4 -> "PRESENCE"
      [] OTHER -> "UNKNOWN"

\* ----------------------------------------------- extract_active_regions
\* The loop over presence_region_map.items() from entry i, `active` so far.
RECURSIVE ActiveLoopAnyValue(_, _, _)
ActiveLoopAnyValue(items, i, active) ==
    IF i > Len(items) THEN active
    ELSE LET value == PyIntOf(items[i][2])
             region == IntOfStr(items[i][1])
         IN  IF value.raised # "none" THEN ActiveLoopAnyValue(items, i + 1, active)
             ELSE IF region.raised # "none" THEN ActiveLoopAnyValue(items, i + 1, active)
             ELSE ActiveLoopAnyValue(items, i + 1, Append(active, region.value))
RECURSIVE ActiveLoop(_, _, _)
ActiveLoop(items, i, active) ==
    IF i > Len(items) THEN active
    ELSE LET value == PyIntOf(items[i][2])
             region == IntOfStr(items[i][1])
         IN  IF value.raised # "none" THEN ActiveLoop(items, i + 1, active)
             ELSE IF value.value # 1 THEN ActiveLoop(items, i + 1, active)
             ELSE IF region.raised # "none" THEN ActiveLoop(items, i + 1, active)
             ELSE ActiveLoop(items, i + 1, Append(active, region.value))

extract_active_regions(presence_region_map) ==
    Sorted(ActiveLoop(presence_region_map, 1, << >>))

\* ------------------------------------------------------ epoch_ms_to_iso
\* An int of any size, as m * 10^e with -9 <= m <= 9 (0 is m = 0, e = 0).
Ms(m, e) == [m |-> m, e |-> IF m = 0 THEN 0 ELSE e]
Abs(n) == IF n < 0 THEN 0 - n ELSE n
\* |m * 10^e| <= |lim.m * 10^lim.e| up to the leading digit
WithinMagnitude(ts, lim) == ts.e < lim.e \/ (ts.e = lim.e /\ Abs(ts.m) <= Abs(lim.m))

\* datetime.fromtimestamp(epoch_ms / 1000, tz=timezone.utc) on CPython with a
\* 64-bit time_t: years 1..9999 convert; beyond them the year is out of range
\* (ValueError) or gmtime overflows (OSError); seconds that do not fit time_t
\* raise OverflowError.
MaxDatetimeMs == Ms(2, 14)
MinDatetimeMs == Ms(-6, 13)
MaxGmtimeMs == Ms(6, 19)
MaxTimeTMs == Ms(9, 21)
fromtimestamp(ts) ==
    IF ~WithinMagnitude(ts, MaxTimeTMs) THEN Raised("OverflowError")
    ELSE IF ~WithinMagnitude(ts, MaxGmtimeMs) THEN Raised("OSError")
    ELSE IF ts.m > 0 /\ ~WithinMagnitude(ts, MaxDatetimeMs) THEN Raised("ValueError")
    ELSE IF ts.m < 0 /\ ~WithinMagnitude(ts, MinDatetimeMs) THEN Raised("ValueError")
    ELSE Value([clock |-> "epoch", ms |-> ts])

\* datetime.now(timezone.utc).isoformat()
Now == [clock |-> "now", ms |-> Ms(0, 0)]

CatchesValueErrorOSError(exc) == exc \in {"ValueError", "OSError"}

epoch_ms_to_iso(epoch_ms) ==
    IF epoch_ms.m = 0 THEN Value(Now)
    ELSE LET dt == fromtimestamp(epoch_ms)
         IN  IF dt.raised = "none" THEN dt
             ELSE IF CatchesValueErrorOSError(dt.raised) THEN Value(Now)
             ELSE dt

\* ---------------------------------------- determine_severity_from_event
determine_severity_from_event(event_type, payload) ==
    IF event_type = "FALL" THEN "HIGH"
    ELSE IF event_type = "PRE_FALL" THEN "MED"
    ELSE IF event_type = "INACTIVITY" THEN "MED"
    ELSE "LOW"

\* ------------------------------------------------ normalize_radar_event
normalize_radar_event(req) ==
    LET payload == req.payload
        event_type == from_code(req.type)
        presence_status == IF payload.presenceDetected THEN "DETECTED" ELSE "NOT_DETECTED"
        active_regions == extract_active_regions(payload.presenceRegionMap)
        target_count == Len(payload.trackerTargets)
        occurred_at == epoch_ms_to_iso(payload.timestamp)
        severity == determine_severity_from_event(event_type, payload)
    IN  IF occurred_at.raised # "none"
        THEN [raised |-> occurred_at.raised, event |-> << >>]
        ELSE [raised |-> "none",
              event |-> <<[id |-> "uuid4",
                           deviceId |-> req.deviceId,
                           eventType |-> event_type,
                           presenceStatus |-> presence_status,
                           presenceDetected |-> payload.presenceDetected,
                           activeRegions |-> active_regions,
                           targetCount |-> target_count,
                           occurredAt |-> occurred_at.value,
                           rawTimestamp |-> payload.timestamp,
                           createdAt |-> Now,
                           severity |-> severity,
                           status |-> "NEW",
                           rawPayloadJson |-> [payload |-> payload, type |-> req.type]]>>]

\* ------------------------------------------------------------- requests
TypeCodes == 0..5
Mantissas == {-7, 0, 2, 3}
Timestamps == {Ms(m, e) : m \in Mantissas, e \in 12..MaxExp}
TargetLists == {[i \in 1..n |-> "target"] : n \in 0..MaxTargets}
ScenarioRegionMap == << <<<<"3">>, PyInt(1)>>, <<<<"7">>, PyInt(0)>>, <<<<"x">>, PyInt(1)>> >>
RegionMaps == {<< >>, ScenarioRegionMap,
               << <<<<"7">>, PyInt(1)>>, <<<<"0", "3">>, PyInt(1)>>, <<<<"3">>, PyInt(1)>> >>,
               << <<<<" ", "3">>, PyInt(2)>>, <<<<"-", "1">>, PyInt(1)>>, <<<<"1", "_", "0">>, PyNone>> >>}
Requests ==
    {[payload |-> [presenceDetected |-> p, presenceRegionMap |-> rm,
                   trackerTargets |-> tt, timestamp |-> ts],
      type |-> code, deviceId |-> "device"] :
        p \in BOOLEAN, rm \in RegionMaps, tt \in TargetLists, ts \in Timestamps,
        code \in TypeCodes}

ScenarioRequest ==
    [payload |-> [presenceDetected |-> TRUE, presenceRegionMap |-> ScenarioRegionMap,
                  trackerTargets |-> <<"target", "target">>, timestamp |-> Ms(0, 0)],
     type |-> 1, deviceId |-> "device"]

InitNorm ==
    /\ conn = [c \in Sids |-> "new"]
    /\ connected_clients = << >>
    /\ rooms = [r \in RoomNames |-> {}]
    /\ tasks = {}
    /\ ret = NoRet
    /\ sent = {}
    /\ request \in Requests
    /\ response = NoResponse
    /\ obj = NoObj
    /\ clean = << >>

Normalize ==
    /\ response = NoResponse
    /\ response' = normalize_radar_event(request)
    /\ UNCHANGED <<request, registry, sanitizer>>

NextNorm == Normalize

SpecNorm == InitNorm /\ [][NextNorm]_vars

\* normalize_radar_event has returned an event for the request.
EventReturned == response # NoResponse /\ response.raised = "none"

\* -------------------------------------------------- region maps (dicts)
\* presenceRegionMap as a dict of at most MaxRegions entries with distinct
\* str keys, in insertion order.
RegionKeys == {<<"3">>, <<"7">>, <<"x">>, <<"0", "3">>, <<" ", "3">>}
RegionValues == {PyInt(0), PyInt(1), PyInt(2), PyStr(<<"1">>), PyNone}
DistinctKeys(items) ==
    \A i, j \in 1..Len(items) : i # j => items[i][1] # items[j][1]
RegionDicts ==
    {items \in UNION {[1..n -> RegionKeys \X RegionValues] : n \in 0..MaxRegions} :
        DistinctKeys(items)}
RegionRequests ==
    {[payload |-> [presenceDetected |-> TRUE, presenceRegionMap |-> rm,
                   trackerTargets |-> << >>, timestamp |-> Ms(0, 0)],
      type |-> 4, deviceId |-> "device"] : rm \in RegionDicts}

InitRegions ==
    /\ conn = [c \in Sids |-> "new"]
    /\ connected_clients = << >>
    /\ rooms = [r \in RoomNames |-> {}]
    /\ tasks = {}
    /\ ret = NoRet
    /\ sent = {}
    /\ request \in RegionRequests
    /\ response = NoResponse
    /\ obj = NoObj
    /\ clean = << >>

SpecRegions == InitRegions /\ [][NextNorm]_vars

\* ==================================================== sanitize_for_json
\* ---------------------------------------------------------- python values
\* An ObjectId, a str, a dict (its items in insertion order, keys are str), a
\* list and a tuple. str(ObjectId) is the str of its hex digits.
Oid(hex) == <<"oid", hex>>
Text(chars) == <<"text", chars>>
Dict(items) == <<"dict", items>>
List(elems) == <<"list", elems>>
Tuple(elems) == <<"tuple", elems>>
IsOid(o) == o[1] = "oid"
IsDict(o) == o[1] = "dict"
IsList(o) == o[1] = "list"
IsTuple(o) == o[1] = "tuple"

RECURSIVE sanitize_for_jsonShallowLists(_)
RECURSIVE SanitizeItemsShallowLists(_)
SanitizeItemsShallowLists(items) ==
    IF items = << >> THEN << >>
    ELSE IF Head(items)[1] = "_id" THEN SanitizeItemsShallowLists(Tail(items))
    ELSE <<<<Head(items)[1], sanitize_for_jsonShallowLists(Head(items)[2])>>>>
             \o SanitizeItemsShallowLists(Tail(items))
sanitize_for_jsonShallowLists(o) ==
    IF IsOid(o) THEN Text(o[2])
    ELSE IF IsDict(o) THEN Dict(SanitizeItemsShallowLists(o[2]))
    ELSE o

RECURSIVE sanitize_for_json(_)
\* {k: sanitize_for_json(v) for k, v in obj.items() if k != '_id'}
RECURSIVE SanitizeItemsDropHead(_)
SanitizeItemsDropHead(items) ==
    IF items = << >> THEN << >>
    ELSE [i \in 1..(Len(items) - 1) |->
             <<items[i + 1][1], sanitize_for_json(items[i + 1][2])>>]
RECURSIVE SanitizeItems(_)
SanitizeItems(items) ==
    IF items = << >> THEN << >>
    ELSE IF Head(items)[1] = "_id" THEN SanitizeItems(Tail(items))
    ELSE <<<<Head(items)[1], sanitize_for_json(Head(items)[2])>>>>
             \o SanitizeItems(Tail(items))
sanitize_for_json(o) ==
    IF IsOid(o) THEN Text(o[2])
    ELSE IF IsDict(o) THEN Dict(SanitizeItems(o[2]))
    ELSE IF IsList(o) THEN List([i \in 1..Len(o[2]) |-> sanitize_for_json(o[2][i])])
    ELSE IF IsTuple(o) THEN Tuple([i \in 1..Len(o[2]) |-> sanitize_for_json(o[2][i])])
    ELSE o

\* Some dict inside o (o included) has the key '_id'.
RECURSIVE HasIdKey(_)
HasIdKey(o) ==
    IF IsDict(o)
    THEN \E i \in 1..Len(o[2]) : o[2][i][1] = "_id" \/ HasIdKey(o[2][i][2])
    ELSE IF IsList(o) \/ IsTuple(o) THEN \E i \in 1..Len(o[2]) : HasIdKey(o[2][i])
    ELSE FALSE
\* Some value inside o (o included) is an ObjectId.
RECURSIVE HasOid(_)
HasOid(o) ==
    IF IsOid(o) THEN TRUE
    ELSE IF IsDict(o) THEN \E i \in 1..Len(o[2]) : HasOid(o[2][i][2])
    ELSE IF IsList(o) \/ IsTuple(o) THEN \E i \in 1..Len(o[2]) : HasOid(o[2][i])
    ELSE FALSE

\* ------------------------------------------------------------- payloads
Leaves == {Oid("64b7f0c2"), Text("s")}
\* The containers with x as one member next to a leaf.
Around(x) ==
    {Dict(<<<<"_id", x>>>>), Dict(<<<<"type", x>>>>), List(<<x>>), Tuple(<<x>>)}
    \cup {Dict(<<<<"_id", l>>, <<"type", x>>>>) : l \in Leaves}
    \cup {Dict(<<<<"type", x>>, <<"_id", l>>>>) : l \in Leaves}
    \cup {List(<<l, x>>) : l \in Leaves}
    \cup {Tuple(<<x, l>>) : l \in Leaves}
\* The values nested at most n deep.
RECURSIVE Objs(_)
Objs(n) ==
    IF n = 0 THEN Leaves
    ELSE Leaves \cup {Dict(<< >>), List(<< >>)}
             \cup UNION {Around(x) : x \in Objs(n - 1)}

InitSan ==
    /\ conn = [c \in Sids |-> "new"]
    /\ connected_clients = << >>
    /\ rooms = [r \in RoomNames |-> {}]
    /\ tasks = {}
    /\ ret = NoRet
    /\ sent = {}
    /\ request = NoRequest
    /\ response = NoResponse
    /\ obj \in Objs(MaxDepth)
    /\ clean = << >>

\* clean = sanitize_for_json(obj), then clean = sanitize_for_json(clean)
Sanitize ==
    /\ Len(clean) < 2
    /\ clean' = Append(clean, sanitize_for_json(IF clean = << >> THEN obj ELSE clean[Len(clean)]))
    /\ UNCHANGED <<obj, registry, normalizer>>

NextSan == Sanitize

SpecSan == InitSan /\ [][NextSan]_vars

\* ============================================== broadcasts with content
\* bool(x) of a str or None
IsTruthy(o) == o \notin {PyNone, Text("")}
\* str(x) of an ObjectId or a str
str(o) == IF IsOid(o) THEN Text(o[2]) ELSE o

HasItem(items, key) == \E i \in 1..Len(items) : items[i][1] = key
GetItem(items, key) == items[CHOOSE i \in 1..Len(items) : items[i][1] = key][2]
\* d[key] = value on the items of a dict
SetItem(items, key, value) ==
    IF HasItem(items, key)
    THEN [i \in 1..Len(items) |-> IF items[i][1] = key THEN <<key, value>> ELSE items[i]]
    ELSE Append(items, <<key, value>>)
\* {**base, **more} on the items of two dicts
RECURSIVE Merge(_, _)
Merge(base, more) ==
    IF more = << >> THEN base
    ELSE Merge(SetItem(base, Head(more)[1], Head(more)[2]), Tail(more))

\* await sio.emit(event, data, room=room)
EmitMessage(room, to, event, data) ==
    /\ sent' = {[room |-> room, to |-> to, event |-> event, data |-> data]}
    /\ ret' = NoRet
    /\ UNCHANGED <<conn, connected_clients, rooms, tasks, normalizer, sanitizer>>

broadcast_new_event(tenant_id, event) ==
    LET room == Room(tenant_id)
        clean_event == sanitize_for_json(event)
    IN  EmitMessage(room, RoomRecipients(rooms, room), "new_event",
                    Dict(<< <<"type", Text("new_event")>>, <<"event", clean_event>> >>))

broadcast_presence_update(tenant_id, data) ==
    LET room == Room(tenant_id)
        clean_data == sanitize_for_json(data)
    IN  EmitMessage(room, RoomRecipients(rooms, room), "presence_update",
                    Dict(Merge(<< <<"type", Text("presence_update")>> >>, clean_data[2])))

sensor_idStr(sensor_id) == IF IsTruthy(sensor_id) THEN str(sensor_id) ELSE sensor_id
broadcast_sensor_status(tenant_id, sensor_id, status, last_seen) ==
    LET room == Room(tenant_id)
    IN  EmitMessage(room, RoomRecipients(rooms, room), "sensor_status",
                    Dict(<< <<"type", Text("sensor_status")>>,
                            <<"sensor_id", sensor_idStr(sensor_id)>>,
                            <<"status", status>>,
                            <<"last_seen", last_seen>> >>))

broadcast_sensor_registered(tenant_id, sensor) ==
    LET room == Room(tenant_id)
        clean_sensor == sanitize_for_json(sensor)
    IN  EmitMessage(room, RoomRecipients(rooms, room), "sensor_registered",
                    Dict(<< <<"type", Text("sensor_registered")>>, <<"sensor", clean_sensor>> >>))

broadcast_to_all(event_name, data) ==
    LET clean_data == sanitize_for_json(data)
    IN  EmitMessage(None, {c \in Sids : conn[c] = "connected"}, event_name, clean_data)

\* The dicts handed to the broadcast functions, and the arguments of
\* broadcast_sensor_status.
DictArgs == {o \in Objs(1) : IsDict(o)}
SensorIdArgs == Leaves \cup {PyNone, Text("")}
StatusArgs == Leaves
LastSeenArgs == {Text("s")}
EventNames == {"notification"}

NextMsg ==
    \/ \E c \in Sids : Connect(c)
    \/ \E c \in Sids, t \in TenantIds : JoinTenant(c, t)
    \/ \E t \in TenantIds, event \in DictArgs : broadcast_new_event(t, event)
    \/ \E t \in TenantIds, data \in DictArgs : broadcast_presence_update(t, data)
    \/ \E t \in TenantIds, sensor_id \in SensorIdArgs, status \in StatusArgs,
          last_seen \in LastSeenArgs : broadcast_sensor_status(t, sensor_id, status, last_seen)
    \/ \E t \in TenantIds, sensor \in DictArgs : broadcast_sensor_registered(t, sensor)
    \/ \E event_name \in EventNames, data \in DictArgs : broadcast_to_all(event_name, data)

SpecMsg == Init /\ [][NextMsg]_vars

\* The messages of this step that carry data.
Outbound == {m \in sent : "data" \in DOMAIN m}

\* ================================================================ claims
\* The tenants whose tracked membership set holds sid.
Membership(sid) == {t \in TenantIds : sid \in GetClients(connected_clients, t)}

\* C1: after any sequence of join_tenant, leave_tenant and disconnect calls
\* every connection is a member of at most one tenant room (a join to t2
\* takes the connection out of t1).
C1_AtMostOneRoom == \A c \in Sids : Cardinality(Membership(c)) <= 1

C3_TerminatedIsTerminal ==
    \A c \in Sids :
        (conn[c] = "disconnected" /\ ~(\E t \in tasks : t.sid = c))
            => Membership(c) = {}

\* C4: handlers run one at a time: disconnect(c) takes c out of every
\* tenant's membership set and room, lowers get_connected_count(t) by exactly
\* 1 for each tenant t that c was a member of, and changes no other membership.
C4_DisconnectCleans ==
    [][\A c \in Sids :
        (conn[c] = "connected" /\ conn'[c] = "disconnected") =>
            \A t \in TenantIds :
                /\ GetClients(connected_clients', t) = GetClients(connected_clients, t) \ {c}
                /\ rooms'[Room(t)] = rooms[Room(t)] \ {c}
                /\ get_connected_count(connected_clients', t) =
                     get_connected_count(connected_clients, t)
                       - (IF c \in GetClients(connected_clients, t) THEN 1 ELSE 0)]_vars
C4_Witness ==
    /\ ret.op = "disconnect"
    /\ conn[ret.sid] = "disconnected"
    /\ \E t \in TenantIds, u \in TenantIds :
        /\ HasKey(connected_clients, t)
        /\ GetClients(connected_clients, t) = {}
        /\ GetClients(connected_clients, u) = Sids \ {ret.sid}

\* C5: a second join_tenant(c, t) right after a first leaves the registry and
\* the rooms as the first left them, with c a member of t.
C5_IdempotentJoin ==
    [][\A c \in Sids, t \in TenantIds :
        (/\ ret = Returned("join_tenant", c, t, Success, Room(t))
         /\ ret' = Returned("join_tenant", c, t, Success, Room(t)))
        => /\ connected_clients' = connected_clients
           /\ rooms' = rooms
           /\ c \in GetClients(connected_clients', t)
           /\ c \in rooms'[Room(t)]]_vars
C5_Witness ==
    /\ ret.op = "join_tenant"
    /\ ret.value = Success
    /\ ret.sid \in GetClients(connected_clients, ret.arg)
    /\ Cardinality(GetClients(connected_clients, ret.arg)) = 2

\* C6: join_tenant with an empty or a missing tenant id returns the failure
\* "tenant_id required" and changes neither the membership map nor the rooms.
C6_JoinRejectsEmpty ==
    [][\A c \in Sids, v \in {None, ""} :
        (ret'.op = "join_tenant" /\ ret'.sid = c /\ ret'.arg = v)
        => /\ ret'.value = JoinFailure
           /\ connected_clients' = connected_clients
           /\ rooms' = rooms]_vars
C6_Witness ==
    /\ ret.op = "join_tenant"
    /\ ret.arg \in {None, ""}
    /\ ret.value = JoinFailure
    /\ \E t \in TenantIds : GetClients(connected_clients, t) # {}

\* C7: leave_tenant(c, t) always returns success; it takes c out of t's
\* membership set when c is in it and changes no other membership; when c is
\* not a member of t, or t is unknown, empty or missing, it changes nothing.
C7_LeaveAlwaysSucceeds ==
    [][\A c \in Sids, v \in TenantArgs :
        (ret'.op = "leave_tenant" /\ ret'.sid = c /\ ret'.arg = v)
        => /\ ret'.value = Success
           /\ \A t \in TenantIds :
                GetClients(connected_clients', t) =
                    IF t = v THEN GetClients(connected_clients, t) \ {c}
                    ELSE GetClients(connected_clients, t)
           /\ (v \in {None, ""} \/ c \notin GetClients(connected_clients, v))
                => (connected_clients' = connected_clients /\ rooms' = rooms)]_vars
C7_Witness ==
    /\ ret.op = "leave_tenant"
    /\ ret.value = Success
    /\ ret.arg \in TenantIds
    /\ HasKey(connected_clients, ret.arg)
    /\ GetClients(connected_clients, ret.arg) = Sids \ {ret.sid}

\* C8: get_connected_count() without a tenant id is the number of connections
\* that hold a membership, and get_connected_count(t) the number of members
\* of t (0 for an unknown tenant or one all of whose members left).
C8_CountsConnections ==
    /\ \A v \in {None, ""} :
        get_connected_count(connected_clients, v) =
            Cardinality({c \in Sids : Membership(c) # {}})
    /\ \A t \in TenantIds :
        get_connected_count(connected_clients, t) =
            Cardinality({c \in Sids : t \in Membership(c)})

C10_NormalizeNeverFails ==
    response # NoResponse =>
        /\ response.raised = "none"
        /\ Len(response.event) = 1

\* C11: for every region map the list returned by extract_active_regions is
\* sorted ascending and holds no region id twice, and its members are exactly
\* the integer values of the keys whose value is 1; entries whose key or
\* value is not an integer are skipped without an exception.
C11_SortedNoDuplicates ==
    EventReturned =>
        LET active == response.event[1].activeRegions
            items == request.payload.presenceRegionMap
        IN  /\ \A i \in 1..(Len(active) - 1) : active[i] < active[i + 1]
            /\ {active[i] : i \in 1..Len(active)} =
                   {IntOfStr(items[i][1]).value : i \in
                       {k \in 1..Len(items) :
                           /\ PyIntOf(items[k][2]) = Value(1)
                           /\ IntOfStr(items[k][1]).raised = "none"}}

\* C12: whatever the payload, the event returned by normalize_radar_event has
\* type and severity FALL/HIGH for code 1, PRE_FALL/MED for 2, INACTIVITY/MED
\* for 3, PRESENCE/LOW for 4, and UNKNOWN/LOW for every other code.
C12_TypeAndSeverity ==
    EventReturned =>
        LET code == request.type
            e == response.event[1]
        IN  /\ code = 1 => e.eventType = "FALL" /\ e.severity = "HIGH"
            /\ code = 2 => e.eventType = "PRE_FALL" /\ e.severity = "MED"
            /\ code = 3 => e.eventType = "INACTIVITY" /\ e.severity = "MED"
            /\ code = 4 => e.eventType = "PRESENCE" /\ e.severity = "LOW"
            /\ code \notin {1, 2, 3, 4} => e.eventType = "UNKNOWN" /\ e.severity = "LOW"
C12_Witness ==
    /\ EventReturned
    /\ request.type \notin 1..4
    /\ request.payload.presenceDetected
    /\ request.payload.presenceRegionMap # << >>
    /\ response.event[1].eventType = "UNKNOWN"
    /\ response.event[1].severity = "LOW"

\* C13: the request {type=1, presenceDetected=true, presenceRegionMap=
\* {"3":1,"7":0,"x":1}, two tracker targets, timestamp=0} normalizes to
\* eventType FALL, presenceStatus DETECTED, activeRegions [3], targetCount 2,
\* severity HIGH, status NEW; for every request presenceStatus is DETECTED
\* exactly when the presence flag is true, targetCount is the length of the
\* target list and status is NEW.
C13_Scenario ==
    EventReturned =>
        LET e == response.event[1]
        IN  /\ e.presenceStatus = "DETECTED" <=> request.payload.presenceDetected
            /\ e.presenceStatus \in {"DETECTED", "NOT_DETECTED"}
            /\ e.targetCount = Len(request.payload.trackerTargets)
            /\ e.status = "NEW"
            /\ request = ScenarioRequest =>
                   /\ e.eventType = "FALL"
                   /\ e.presenceStatus = "DETECTED"
                   /\ e.activeRegions = <<3>>
                   /\ e.targetCount = 2
                   /\ e.severity = "HIGH"
                   /\ e.status = "NEW"
C13_Witness ==
    /\ request = ScenarioRequest
    /\ EventReturned
    /\ response.event[1].activeRegions = <<3>>

\* C14: for every payload of nested dicts and lists the result of
\* sanitize_for_json has no '_id' key at any depth, lists included, and no
\* ObjectId (each is replaced by its str); every other key and value is as
\* in the payload.
RECURSIVE Sanitized(_, _)
Sanitized(x, y) ==
    IF IsOid(x) THEN y = Text(x[2])
    ELSE IF IsDict(x)
    THEN LET kept == SelectSeq(x[2], LAMBDA item : item[1] # "_id")
         IN  /\ IsDict(y)
             /\ Len(y[2]) = Len(kept)
             /\ \A i \in 1..Len(kept) :
                    /\ y[2][i][1] = kept[i][1]
                    /\ Sanitized(kept[i][2], y[2][i][2])
    ELSE IF IsList(x) \/ IsTuple(x)
    THEN /\ y[1] = x[1]
         /\ Len(y[2]) = Len(x[2])
         /\ \A i \in 1..Len(x[2]) : Sanitized(x[2][i], y[2][i])
    ELSE y = x
C14_StripsIdAndObjectId ==
    clean # << >> =>
        /\ ~HasIdKey(clean[1])
        /\ ~HasOid(clean[1])
        /\ Sanitized(obj, clean[1])
C14_Witness ==
    /\ clean # << >>
    /\ IsDict(obj)
    /\ \E i \in 1..Len(obj[2]) :
           /\ IsList(obj[2][i][2])
           /\ HasIdKey(obj[2][i][2])
           /\ HasOid(obj[2][i][2])
    /\ clean[1] # obj

\* C19: sanitize_for_json is idempotent: for every payload of dicts, lists,
\* tuples, ObjectIds and scalars, sanitizing the sanitized payload gives the
\* sanitized payload again.
C19_Idempotent == Len(clean) = 2 => clean[2] = clean[1]
C19_Witness ==
    /\ Len(clean) = 2
    /\ IsDict(obj)
    /\ \E i \in 1..Len(obj[2]) : obj[2][i][1] = "_id"
    /\ \E i \in 1..Len(obj[2]) : IsTuple(obj[2][i][2]) /\ HasOid(obj[2][i][2])
    /\ clean[1] # obj

\* C16: whatever the arguments, no message emitted by broadcast_new_event,
\* broadcast_presence_update, broadcast_sensor_status,
\* broadcast_sensor_registered or broadcast_to_all holds an '_id' key or an
\* ObjectId at any depth.
C16_EveryMessageSanitized ==
    \A m \in Outbound : ~HasIdKey(m.data) /\ ~HasOid(m.data)

\* C17: whatever keys the payload has, the `type` field of a message sent to
\* a tenant room is the name of its event: "presence_update" for
\* broadcast_presence_update, and likewise new_event, sensor_status and
\* sensor_registered.
C17_TypeIsEventName ==
    \A m \in Outbound :
        m.room # None => /\ HasItem(m.data[2], "type")
                         /\ GetItem(m.data[2], "type") = Text(m.event)

\* C15: under any interleaving the disconnect handler completes without an
\* error: a join_tenant of another connection (for a tenant that may not be
\* in connected_clients yet) that runs while disconnect is suspended at
\* `await sio.leave_room` inside its loop over connected_clients does not make
\* it fail before it has taken the connection out of every room.
C15_DisconnectCompletes ==
    ret.op = "disconnect" => ret.value # "RuntimeError"

\* C18: under any interleaving of join_tenant, leave_tenant and disconnect at
\* their awaits, whenever no handler is in flight a connection is in
\* connected_clients[t] exactly when it is in the room tenant_t.
C18_RegistryAgreesWithRooms ==
    tasks = {} =>
        \A c \in Sids, t \in TenantIds :
            c \in GetClients(connected_clients, t) <=> c \in rooms[Room(t)]

====
